---- MODULE Spec2Model ----
(***************************************************************************)
(* Model of the Magink ink! contract (src/contract/lib.rs).                *)
(*                                                                         *)
(* State: the storage mapping `user` (AccountId -> Profile), the host's    *)
(* block number, the last message that was executed together with what it  *)
(* returned, and a history (ghost) record per account that the properties  *)
(* are stated against.                                                     *)
(*                                                                         *)
(* A message that panics traps the contract: the host reverts its storage  *)
(* writes and the caller gets no return value (res = "Panic").             *)
(* Integer arithmetic that leaves the range of its type panics in builds   *)
(* with overflow checks and wraps in builds without them; both outcomes    *)
(* are modelled.                                                           *)
(***************************************************************************)
EXTENDS Integers, Sequences, FiniteSets, TLC

VARIABLES user, block_number, last, hist

vars == <<user, block_number, last, hist>>

---------------------------------------------------------------------------
(* Bounds of the model *)

\* small block numbers 0..MaxBlock are all visited
MaxBlock == 2
\* under Spec an account makes at most this many successful claims after a start
MaxClaims == 2
\* under SpecU8Range: successful claims made after the badge counter wrapped
MaxPostWrap == 1

(* Program constants *)

\* largest u8 (claim_era, badges_claimed)
U8Max == 255

AccountId == {"alice", "bob"}
\* the account that sends the messages under SpecU8Range
Heavy == "alice"

\* arguments given to start
Eras == {0, 1, 2, U8Max}

\* block numbers at which messages are executed: the first few blocks and
\* blocks far enough away for an era of U8Max to elapse and for the elapsed
\* count to exceed the u8 range
Blocks == (0 .. MaxBlock) \cup {U8Max, U8Max + 1}

---------------------------------------------------------------------------
(* Data *)

Profile(era, start, badges) ==
    [claim_era |-> era, start_block |-> start, badges_claimed |-> badges]

\* Option<T>: None is the empty sequence, Some(x) is <<x>>
None == << >>
Some(x) == <<x>>

\* Mapping::new()
MappingNew == [a \in {} |-> Profile(0, 0, 0)]

\* MappingGet with a storage key that leaves out the account
MappingGetShared(m, a) ==
    IF DOMAIN m = {} THEN None ELSE Some(m[CHOOSE x \in DOMAIN m : TRUE])

\* Mapping::get
MappingGet(m, a) == IF a \in DOMAIN m THEN Some(m[a]) ELSE None

\* MappingInsert with a storage key that leaves out the account
MappingInsertShared(m, a, p) == [x \in (DOMAIN m) \cup {a} |-> p]

\* Mapping::insert
MappingInsert(m, a, p) ==
    [x \in (DOMAIN m) \cup {a} |-> IF x = a THEN p ELSE m[x]]

\* Result of an arithmetic operation of a type with values 0..max: the
\* exact value when it is in range, otherwise a panic (checked build) or
\* the value modulo max+1 (wrapping build).
Arith(x, max) ==
    IF x >= 0 /\ x <= max
    THEN {[trap |-> FALSE, val |-> x]}
    ELSE {[trap |-> TRUE, val |-> 0], [trap |-> FALSE, val |-> x % (max + 1)]}

\* `x as u8`
AsU8(x) == x % (U8Max + 1)

Trap == [trap |-> TRUE, val |-> 0]
Val(x) == [trap |-> FALSE, val |-> x]

\* u32 subtraction a - b.  A negative difference x panics or wraps to
\* x + 2^32.  The model checker's integers end at 2^31 - 1, so the wrapped
\* value is represented by x + 2^31: it has the same low 8 bits and, like
\* x + 2^32, exceeds every u8, which is all the contract reads from it.
SubU32(a, b) ==
    IF a >= b THEN {Val(a - b)} ELSE {Trap, Val((a - b) + 2147483647 + 1)}

---------------------------------------------------------------------------
(* The computations of the messages, as functions of the storage mapping   *)
(* m, the caller (or queried account) and the current block number.        *)

\* EraElapsed ending the era one block early
EraElapsedOffByOne(elapsed, era) == elapsed + 1 >= era

\* EraElapsed with the comparison turned around
EraElapsedReversed(elapsed, era) == elapsed <= era

\* the test `current_block - profile.start_block >= profile.claim_era as u32`
EraElapsed(elapsed, era) == elapsed >= era

\* get_remaining_closure without the early return of 0
get_remaining_closure_no_guard(profile, current_block) ==
    UNION { IF d.trap THEN {Trap}
            ELSE Arith(profile.claim_era - AsU8(d.val), U8Max)
          : d \in SubU32(current_block, profile.start_block) }

\* the closure of get_remaining applied to a stored profile
get_remaining_closure(profile, current_block) ==
    UNION { IF d.trap THEN {Trap}
            ELSE IF EraElapsed(d.val, profile.claim_era) THEN {Val(0)}
            ELSE Arith(profile.claim_era - AsU8(d.val), U8Max)
          : d \in SubU32(current_block, profile.start_block) }

\* get_remaining_for_closure without the early return of 0
get_remaining_for_closure_no_guard(profile, current_block) ==
    UNION { IF d.trap THEN {Trap}
            ELSE Arith(profile.claim_era - AsU8(d.val), U8Max)
          : d \in SubU32(current_block, profile.start_block) }

\* get_remaining_for_closure narrowing the elapsed blocks before the test
get_remaining_for_closure_narrow_first(profile, current_block) ==
    UNION { IF d.trap THEN {Trap}
            ELSE IF AsU8(d.val) >= profile.claim_era THEN {Val(0)}
            ELSE Arith(profile.claim_era - AsU8(d.val), U8Max)
          : d \in SubU32(current_block, profile.start_block) }

\* the closure of get_remaining_for (a second copy of the same code)
get_remaining_for_closure(profile, current_block) ==
    UNION { IF d.trap THEN {Trap}
            ELSE IF d.val >= profile.claim_era THEN {Val(0)}
            ELSE Arith(profile.claim_era - AsU8(d.val), U8Max)
          : d \in SubU32(current_block, profile.start_block) }

\* get_remaining_result taking a full era as the default
get_remaining_result_default_era(m, caller, current_block) ==
    LET o == MappingGet(m, caller)
    IN  IF o = None THEN {Val(U8Max)} ELSE get_remaining_closure(o[1], current_block)

\* self.user.get(&caller).map_or(0, closure)
get_remaining_result(m, caller, current_block) ==
    LET o == MappingGet(m, caller)
    IN  IF o = None THEN {Val(0)} ELSE get_remaining_closure(o[1], current_block)

get_remaining_for_result(m, account, current_block) ==
    LET o == MappingGet(m, account)
    IN  IF o = None THEN {Val(0)} ELSE get_remaining_for_closure(o[1], current_block)

get_account_profile_result(m, account) == MappingGet(m, account)

get_profile_result(m, caller) == MappingGet(m, caller)

get_badges_result(m, caller) ==
    LET o == get_profile_result(m, caller)
    IN  IF o = None THEN 0 ELSE o[1].badges_claimed

get_badges_for_result(m, account) ==
    LET o == get_account_profile_result(m, account)
    IN  IF o = None THEN 0 ELSE o[1].badges_claimed

\* start_profile beginning the era at the next block
start_profile_next_block(era, current_block) == Profile(era, current_block + 1, 0)

\* the profile written by start
start_profile(era, current_block) == Profile(era, current_block, 0)

\* start_result keeping the badges of a profile it replaces
start_result_resume(m, caller, era, current_block) ==
    MappingInsert(m, caller,
        Profile(era, current_block,
                IF caller \in DOMAIN m THEN m[caller].badges_claimed ELSE 0))

\* the mapping after start
start_result(m, caller, era, current_block) ==
    MappingInsert(m, caller, start_profile(era, current_block))

\* `profile.badges_claimed += 1`
badges_increment(badges) == Arith(badges + 1, U8Max)

\* claim_update leaving start_block as it was
claim_update_keep_start(m, caller, current_block) ==
    LET o == get_profile_result(m, caller)
    IN  IF o = None
        THEN {[res |-> "Panic", user |-> m]}
        ELSE { IF b.trap
               THEN [res |-> "Panic", user |-> m]
               ELSE [res |-> "Ok",
                     user |-> MappingInsert(m, caller,
                                 Profile(o[1].claim_era, o[1].start_block, b.val))]
             : b \in badges_increment(o[1].badges_claimed) }

\* claim_update falling back to a fresh profile when the caller has none
claim_update_or_default(m, caller, current_block) ==
    LET o == get_profile_result(m, caller)
        p == IF o = None THEN Profile(0, current_block, 0) ELSE o[1]
    IN  { IF b.trap
          THEN [res |-> "Panic", user |-> m]
          ELSE [res |-> "Ok",
                user |-> MappingInsert(m, caller,
                            Profile(p.claim_era, current_block, b.val))]
        : b \in badges_increment(p.badges_claimed) }

\* the part of claim after the ensure!: the profile is fetched and unwrapped,
\* updated and written back.  Yields the returned value and the new mapping.
claim_update(m, caller, current_block) ==
    LET o == get_profile_result(m, caller)
    IN  IF o = None
        THEN \* Err(UserNotFound).unwrap() panics
             {[res |-> "Panic", user |-> m]}
        ELSE { IF b.trap
               THEN [res |-> "Panic", user |-> m]
               ELSE [res |-> "Ok",
                     user |-> MappingInsert(m, caller,
                                 Profile(o[1].claim_era, current_block, b.val))]
             : b \in badges_increment(o[1].badges_claimed) }

\* claim_result resetting the era before it decides
claim_result_write_first(m, caller, current_block) ==
    UNION { IF r.trap THEN {[res |-> "Panic", user |-> m]}
            ELSE IF r.val # 0
            THEN {[res |-> "TooEarlyToClaim",
                   user |-> MappingInsert(m, caller,
                               [m[caller] EXCEPT !.start_block = current_block])]}
            ELSE claim_update(m, caller, current_block)
          : r \in get_remaining_result(m, caller, current_block) }

\* claim: ensure!(self.get_remaining() == 0, Error::TooEarlyToClaim), then
\* the update
claim_result(m, caller, current_block) ==
    UNION { IF r.trap THEN {[res |-> "Panic", user |-> m]}
            ELSE IF r.val # 0 THEN {[res |-> "TooEarlyToClaim", user |-> m]}
            ELSE claim_update(m, caller, current_block)
          : r \in get_remaining_result(m, caller, current_block) }

---------------------------------------------------------------------------
(* Records of the executed message and of the history *)

\* op: the message; caller: its sender; account, era: its argument;
\* before: the caller's profile when the message arrived;
\* res: "Return", "Ok", an Error or "Panic"; val, profile: the value returned
Msg(op, caller, account, era, before, res, val, profile) ==
    [op |-> op, caller |-> caller, account |-> account, era |-> era,
     before |-> before, res |-> res, val |-> val, profile |-> profile]

NoHist == [started |-> FALSE, era |-> 0, tick |-> 0, claims |-> 0]

---------------------------------------------------------------------------
(* Actions *)

\* Magink::new()
Init ==
    /\ user = MappingNew
    /\ block_number = 0
    /\ last = Msg("new", "alice", "alice", 0, None, "Return", 0, None)
    /\ hist = [a \in AccountId |-> NoHist]

\* the host produces blocks; the contract is next called at block b
advance_block(b) ==
    /\ b > block_number
    /\ block_number' = b
    /\ last' = Msg("advance_block", "alice", "alice", 0, None, "Return", 0, None)
    /\ UNCHANGED <<user, hist>>

start(c, era) ==
    /\ user' = start_result(user, c, era, block_number)
    /\ last' = Msg("start", c, c, era, MappingGet(user, c), "Return", 0, None)
    /\ hist' = [hist EXCEPT ![c] =
                  [started |-> TRUE, era |-> era, tick |-> block_number, claims |-> 0]]
    /\ UNCHANGED block_number

claim(c) ==
    \E r \in claim_result(user, c, block_number) :
        /\ user' = r.user
        /\ last' = Msg("claim", c, c, 0, MappingGet(user, c), r.res, 0, None)
        /\ hist' = IF r.res = "Ok"
                   THEN [hist EXCEPT ![c].tick = block_number,
                                     ![c].claims = @ + 1]
                   ELSE hist
        /\ UNCHANGED block_number

get_remaining(c) ==
    \E r \in get_remaining_result(user, c, block_number) :
        /\ last' = Msg("get_remaining", c, c, 0, MappingGet(user, c),
                       IF r.trap THEN "Panic" ELSE "Return", r.val, None)
        /\ UNCHANGED <<user, block_number, hist>>

\* get_remaining_for answering for the caller
get_remaining_for_caller(c, account) ==
    \E r \in get_remaining_for_result(user, c, block_number) :
        /\ last' = Msg("get_remaining_for", c, account, 0, MappingGet(user, c),
                       IF r.trap THEN "Panic" ELSE "Return", r.val, None)
        /\ UNCHANGED <<user, block_number, hist>>

get_remaining_for(c, account) ==
    \E r \in get_remaining_for_result(user, account, block_number) :
        /\ last' = Msg("get_remaining_for", c, account, 0, MappingGet(user, c),
                       IF r.trap THEN "Panic" ELSE "Return", r.val, None)
        /\ UNCHANGED <<user, block_number, hist>>

get_account_profile(c, account) ==
    /\ last' = Msg("get_account_profile", c, account, 0, MappingGet(user, c),
                   "Return", 0,
                   get_account_profile_result(user, account))
    /\ UNCHANGED <<user, block_number, hist>>

get_profile(c) ==
    /\ last' = Msg("get_profile", c, c, 0, MappingGet(user, c), "Return", 0,
                   get_profile_result(user, c))
    /\ UNCHANGED <<user, block_number, hist>>

get_badges(c) ==
    /\ last' = Msg("get_badges", c, c, 0, MappingGet(user, c), "Return",
                   get_badges_result(user, c), None)
    /\ UNCHANGED <<user, block_number, hist>>

get_badges_for(c, account) ==
    /\ last' = Msg("get_badges_for", c, account, 0, MappingGet(user, c), "Return",
                   get_badges_for_result(user, account), None)
    /\ UNCHANGED <<user, block_number, hist>>

\* one message, sent by an account of S that made fewer than cap successful
\* claims since its last start, or the production of blocks
Step(S, cap) ==
    \/ \E b \in Blocks : advance_block(b)
    \/ \E c \in S, era \in Eras : start(c, era)
    \/ \E c \in {x \in S : hist[x].claims < cap} : claim(c)
    \/ \E c \in S : get_remaining(c)
    \/ \E c \in S, a \in AccountId : get_remaining_for(c, a)
    \/ \E c \in S, a \in AccountId : get_account_profile(c, a)
    \/ \E c \in S : get_profile(c)
    \/ \E c \in S : get_badges(c)
    \/ \E c \in S, a \in AccountId : get_badges_for(c, a)

\* every account sends messages
Next == Step(AccountId, MaxClaims)

Spec == Init /\ [][Next]_vars

\* one account sends messages, often enough for its badge counter to pass
\* through the whole u8 range
NextU8Range == Step({Heavy}, U8Max + 1 + MaxPostWrap)

SpecU8Range == Init /\ [][NextU8Range]_vars

\* the host keeps producing blocks
SpecTicking == Spec /\ WF_vars(\E b \in Blocks : advance_block(b))

---------------------------------------------------------------------------
(* Type invariant *)

TypeOK ==
    /\ DOMAIN user \subseteq AccountId
    /\ \A a \in DOMAIN user :
          /\ user[a].claim_era \in 0 .. U8Max
          /\ user[a].start_block \in Blocks
          /\ user[a].badges_claimed \in 0 .. U8Max
    /\ block_number \in Blocks

---------------------------------------------------------------------------
(* What the properties are stated against *)

\* the remaining blocks of an era e started at block T, at block t
Remaining(e, T, t) == IF t - T < e THEN e - (t - T) ELSE 0

\* the remaining blocks of account a according to its stored profile
RemainingOf(m, a, t) ==
    IF a \in DOMAIN m
    THEN Remaining(m[a].claim_era, m[a].start_block, t)
    ELSE 0

\* the step just taken executed message op sent by c
Did(op, c) == last'.op = op /\ last'.caller = c

---------------------------------------------------------------------------
(* claim: what it returns *)

\* C1: a claim by an account that has no profile returns the error
\* UserNotFound and leaves the mapping as it was.
C1_ClaimWithoutProfile ==
    [][\A c \in AccountId :
         (Did("claim", c) /\ c \notin DOMAIN user)
            => (last'.res = "UserNotFound" /\ user' = user)]_vars

\* C2: claim returns Ok if and only if the caller has a profile and its
\* remaining blocks are 0 at the current block.
C2_ClaimOkIffEligible ==
    [][\A c \in AccountId :
         Did("claim", c)
            => (last'.res = "Ok"
                  <=> (c \in DOMAIN user /\ RemainingOf(user, c, block_number) = 0))]_vars

\* C3: a claim by an account that has a profile whose remaining blocks are
\* not 0 returns TooEarlyToClaim and leaves every profile as it was.
C3_TooEarlyLeavesStore ==
    [][\A c \in AccountId :
         (Did("claim", c) /\ c \in DOMAIN user
            /\ RemainingOf(user, c, block_number) # 0)
            => (last'.res = "TooEarlyToClaim" /\ user' = user)]_vars

C3_Witness ==
    /\ last.op = "claim"
    /\ last.res = "TooEarlyToClaim"
    /\ last.before # None
    /\ last.before[1].badges_claimed > 0
    /\ DOMAIN user = AccountId

\* C4: a claim that returns Ok at block t leaves the caller's profile with
\* badges_claimed one higher, start_block = t and claim_era as it was; and
\* no step other than a start by the account changes the claim_era of its
\* profile.
C4_ClaimUpdate ==
    [][\A c \in AccountId :
         /\ (Did("claim", c) /\ last'.res = "Ok")
               => /\ c \in DOMAIN user /\ c \in DOMAIN user'
                  /\ user'[c] = Profile(user[c].claim_era, block_number,
                                        user[c].badges_claimed + 1)
         /\ (c \in DOMAIN user /\ ~Did("start", c))
               => (c \in DOMAIN user' /\ user'[c].claim_era = user[c].claim_era)]_vars

\* C5: a claim that returns Ok comes at least claim_era blocks after the
\* account's previous successful claim, or after its start when it made
\* none since; claim_era being the era given to that start.
C5_NoDoubleClaim ==
    [][\A c \in AccountId :
         (Did("claim", c) /\ last'.res = "Ok")
            => /\ hist[c].started
               /\ block_number - hist[c].tick >= hist[c].era]_vars

\* the second successful claim of an era of at least one block
C5_Witness ==
    /\ last.op = "claim"
    /\ last.res = "Ok"
    /\ hist[last.caller].claims = 2
    /\ hist[last.caller].era >= 1

---------------------------------------------------------------------------
(* start and the era countdown *)

\* C6: while an account has made no successful claim since its start(e) at
\* block T, get_remaining and get_remaining_for return e - (t - T) for it at
\* a block t with t - T < e, and 0 at a block t with t - T >= e.
C6_RemainingAfterStart ==
    (/\ last.op \in {"get_remaining", "get_remaining_for"}
     /\ hist[last.account].started
     /\ hist[last.account].claims = 0)
        => /\ last.res = "Return"
           /\ last.val = Remaining(hist[last.account].era, hist[last.account].tick,
                                   block_number)

\* one block before an era of 255 blocks ends
C6_Witness ==
    /\ last.op = "get_remaining"
    /\ hist[last.account].started
    /\ hist[last.account].claims = 0
    /\ hist[last.account].era = U8Max
    /\ block_number - hist[last.account].tick = U8Max - 1
    /\ last.val = 1

\* C7: start(e) returns without error and leaves the caller's profile equal
\* to {claim_era: e, start_block: the current block, badges_claimed: 0},
\* whatever the caller's profile was.
C7_StartOverwrites ==
    last.op = "start"
        => /\ last.res = "Return"
           /\ last.caller \in DOMAIN user
           /\ user[last.caller] = Profile(last.era, block_number, 0)

\* a start that replaced a profile holding badges, at a later block and
\* with another era
C7_Witness ==
    /\ last.op = "start"
    /\ last.before # None
    /\ last.before[1].badges_claimed > 0
    /\ last.before[1].claim_era # last.era
    /\ last.before[1].start_block < block_number
    /\ user[last.caller].badges_claimed = 0

\* C8: a start or a claim by account a leaves the profile of every other
\* account, or its absence, as it was.
C8_AccountIsolation ==
    [][\A a \in AccountId, b \in AccountId :
         ((Did("start", a) \/ Did("claim", a)) /\ b # a)
            => MappingGet(user', b) = MappingGet(user, b)]_vars

\* a successful claim while the other account holds a profile with a badge
C8_Witness ==
    /\ last.op = "claim"
    /\ last.res = "Ok"
    /\ \E b \in DOMAIN user : b # last.caller /\ user[b].badges_claimed > 0

Queries ==
    {"get_remaining", "get_remaining_for", "get_profile", "get_account_profile",
     "get_badges", "get_badges_for"}

\* C9: a query leaves the mapping as it was and returns a value; what a
\* _for query returns is determined by the queried account's profile and the
\* current block alone.
C9_QueriesReadOnly ==
    [][last'.op \in Queries
          => /\ user' = user
             /\ last'.res = "Return"
             /\ last'.op = "get_remaining_for"
                   => last'.val = RemainingOf(user, last'.account, block_number)
             /\ last'.op = "get_account_profile"
                   => last'.profile = MappingGet(user, last'.account)
             /\ last'.op = "get_badges_for"
                   => last'.val = (IF last'.account \in DOMAIN user
                                   THEN user[last'.account].badges_claimed
                                   ELSE 0)]_vars

\* a _for query about another account, whose answer differs from the answer
\* for the caller
C9_Witness ==
    /\ last.op = "get_remaining_for"
    /\ last.account # last.caller
    /\ last.caller \in DOMAIN user
    /\ last.val > 0
    /\ last.val # RemainingOf(user, last.caller, block_number)

\* C10: the start_block of every profile is at most the current block, so
\* the subtraction current_block - start_block does not underflow.
C10_StartBlockNotAhead ==
    \A a \in DOMAIN user :
        /\ user[a].start_block <= block_number
        /\ \A d \in SubU32(block_number, user[a].start_block) : ~d.trap

\* a profile started at the current block beside one started earlier
C10_Witness ==
    /\ block_number > 0
    /\ \E a \in DOMAIN user : user[a].start_block = block_number
    /\ \E a \in DOMAIN user : user[a].start_block < block_number

---------------------------------------------------------------------------
(* The badge counter and the existence of profiles *)

\* C11: no step other than a start by the account lowers the badges_claimed
\* of its profile; a claim made at badges_claimed = 255 does not.
C11_BadgesNeverDecrease ==
    [][\A c \in DOMAIN user :
         ~Did("start", c)
            => /\ c \in DOMAIN user'
               /\ user'[c].badges_claimed >= user[c].badges_claimed]_vars

\* C12: an account has a profile if and only if it has called start, and a
\* profile, once there, is never absent again.
C12_ProfileIffStarted ==
    [][\A a \in AccountId :
         /\ (a \in DOMAIN user) <=> hist[a].started
         /\ (a \in DOMAIN user') <=> hist'[a].started
         /\ (a \in DOMAIN user) => (a \in DOMAIN user')]_vars

\* a claim by an account without a profile, beside an account that has one
C12_Witness ==
    /\ last.op = "claim"
    /\ last.caller \notin DOMAIN user
    /\ ~hist[last.caller].started
    /\ DOMAIN user # {}

\* C13: about an account without a profile get_remaining, get_remaining_for,
\* get_badges and get_badges_for return 0, and get_profile and
\* get_account_profile return None, at every block.
C13_AbsentProfileQueries ==
    (last.op \in Queries /\ last.account \notin DOMAIN user)
        => /\ last.res = "Return"
           /\ last.val = 0
           /\ last.profile = None

\* the remaining blocks of an absent account, asked at a later block by an
\* account in the middle of an era
C13_Witness ==
    /\ last.op = "get_remaining_for"
    /\ last.account \notin DOMAIN user
    /\ last.caller \in DOMAIN user
    /\ RemainingOf(user, last.caller, block_number) > 0
    /\ block_number > 0

---------------------------------------------------------------------------
(* The era cycle and the arithmetic of the countdown *)

\* C14: after start(e) at block T with e >= 1: at block T+e-1 get_remaining
\* returns 1 and claim returns TooEarlyToClaim; at block T+e claim returns
\* Ok; and at that same block, after that first success, get_badges returns
\* 1, get_remaining returns e and claim returns TooEarlyToClaim.
C14_EraCycle ==
    [][\A c \in AccountId :
         (hist[c].started /\ hist[c].era >= 1)
            => /\ (hist[c].claims = 0
                     /\ block_number = hist[c].tick + hist[c].era - 1)
                     => /\ Did("get_remaining", c) => last'.val = 1
                        /\ Did("claim", c) => last'.res = "TooEarlyToClaim"
               /\ (hist[c].claims = 0
                     /\ block_number = hist[c].tick + hist[c].era)
                     => (Did("claim", c) => last'.res = "Ok")
               /\ (hist[c].claims = 1 /\ block_number = hist[c].tick)
                     => /\ Did("get_badges", c) => last'.val = 1
                        /\ Did("get_remaining", c) => last'.val = hist[c].era
                        /\ Did("claim", c) => last'.res = "TooEarlyToClaim"]_vars

\* the second claim at the block of the first success, era of 255 blocks
C14_Witness ==
    /\ last.op = "claim"
    /\ last.res = "TooEarlyToClaim"
    /\ hist[last.caller].era = U8Max
    /\ hist[last.caller].claims = 1
    /\ hist[last.caller].tick = block_number
    /\ user[last.caller].badges_claimed = 1

\* C15: get_remaining and get_remaining_for return a value in 0..claim_era of
\* the queried profile; when the era has not elapsed the elapsed blocks fit
\* a u8, and the u8 subtraction claim_era - elapsed does not underflow.
C15_RemainingInRange ==
    /\ \A a \in DOMAIN user :
          /\ \A r \in get_remaining_result(user, a, block_number)
                        \cup get_remaining_for_result(user, a, block_number) :
                ~r.trap /\ r.val \in 0 .. user[a].claim_era
          /\ \A d \in SubU32(block_number, user[a].start_block) :
                ~EraElapsed(d.val, user[a].claim_era)
                    => /\ AsU8(d.val) = d.val
                       /\ user[a].claim_era - AsU8(d.val) \in 1 .. U8Max
    /\ (last.op \in {"get_remaining", "get_remaining_for"}
          /\ last.account \in DOMAIN user)
          => /\ last.res = "Return"
             /\ last.val \in 0 .. user[last.account].claim_era

\* more blocks have elapsed than a u8 holds
C15_Witness ==
    /\ last.op = "get_remaining_for"
    /\ last.account \in DOMAIN user
    /\ block_number - user[last.account].start_block > U8Max
    /\ user[last.account].claim_era = U8Max
    /\ last.val = 0

\* C16: for every caller c the queries about the caller and the queries
\* about a given account agree: get_remaining() = get_remaining_for(c),
\* get_profile() = get_account_profile(c), and get_badges() =
\* get_badges_for(c) = badges_claimed of c's profile, 0 when absent.
C16_CallerAndForAgree ==
    /\ \A c \in AccountId :
          /\ get_remaining_result(user, c, block_number)
                = get_remaining_for_result(user, c, block_number)
          /\ get_profile_result(user, c) = get_account_profile_result(user, c)
          /\ get_badges_result(user, c) = get_badges_for_result(user, c)
          /\ get_badges_result(user, c)
                = (IF c \in DOMAIN user THEN user[c].badges_claimed ELSE 0)
    /\ last.op = "get_remaining"
          => Val(last.val) \in get_remaining_for_result(user, last.caller, block_number)
    /\ (last.op = "get_remaining_for" /\ last.res = "Return")
          => Val(last.val) \in get_remaining_result(user, last.account, block_number)
    /\ last.op = "get_profile"
          => last.profile = get_account_profile_result(user, last.caller)
    /\ last.op = "get_badges"
          => last.val = get_badges_for_result(user, last.caller)

\* the caller's own countdown, asked in the middle of an era after a claim
C16_Witness ==
    /\ last.op = "get_remaining"
    /\ last.val > 0
    /\ last.caller \in DOMAIN user
    /\ user[last.caller].badges_claimed > 0
    /\ block_number > user[last.caller].start_block

---------------------------------------------------------------------------
(* The state machine of an account *)

\* the account can claim: get_remaining returns 0 for its profile
Eligible(c) ==
    /\ c \in DOMAIN user
    /\ get_remaining_result(user, c, block_number) = {Val(0)}

\* the last block of the model
LastBlock == CHOOSE b \in Blocks : \A x \in Blocks : x <= b

\* the era of the account ends at a block of the model
EndsInModel(c) ==
    hist[c].started /\ hist[c].tick + hist[c].era <= LastBlock

\* the last message was a start or a claim of the account
StartOrClaimBy(c) == last.op \in {"start", "claim"} /\ last.caller = c

\* C17: while blocks keep being produced, an account with a profile that
\* sends no further start or claim becomes Eligible, at the latest claim_era
\* blocks after its era began, and Eligible is left only by a start or a
\* successful claim of that account.
C17_EligibleProgress ==
    /\ [](\A c \in AccountId :
            (hist[c].started /\ block_number - hist[c].tick >= hist[c].era)
                => Eligible(c))
    /\ [][\A c \in AccountId :
            (Eligible(c) /\ ~Eligible(c)')
                => (Did("start", c) \/ (Did("claim", c) /\ last'.res = "Ok"))]_vars
    /\ \A c \in AccountId :
            EndsInModel(c) ~> (Eligible(c) \/ StartOrClaimBy(c))

\* an account made Eligible by the production of a block, in an era of more
\* than one block, while the other account is waiting
C17_Witness ==
    /\ last.op = "advance_block"
    /\ \E c \in DOMAIN user :
          /\ Eligible(c)
          /\ user[c].claim_era > 1
          /\ block_number - user[c].start_block = user[c].claim_era
          /\ \E b \in DOMAIN user : b # c /\ ~Eligible(b)

---------------------------------------------------------------------------
(* An era of 0 blocks, and the badge count as a count of claims *)

\* C18: from a start(0) of an account until its next start, get_remaining
\* returns 0 for it at every block, and every claim of the account returns
\* Ok and adds 1 to its badges_claimed, also several at one block.
C18_EraZeroAlwaysClaimable ==
    [][\A c \in AccountId :
         (hist[c].started /\ hist[c].era = 0)
            => /\ c \in DOMAIN user
               /\ get_remaining_result(user, c, block_number) = {Val(0)}
               /\ Did("claim", c)
                     => /\ last'.res = "Ok"
                        /\ user'[c].badges_claimed = user[c].badges_claimed + 1]_vars

\* C19: the badges_claimed of a profile is the number of successful claims
\* the account made since its most recent start.
C19_BadgesCountClaims ==
    \A a \in AccountId :
        /\ hist[a].started <=> a \in DOMAIN user
        /\ hist[a].started => user[a].badges_claimed = hist[a].claims

---------------------------------------------------------------------------
(* Noninterference *)

\* profiles the other accounts may hold at block t
OtherProfiles(t) ==
    {Profile(e, sb, b) : e \in {0, U8Max}, sb \in {0, t}, b \in {0, U8Max}}

\* the mappings that agree with m on account a: every other account has no
\* profile or one of OtherProfiles(t)
Variants(m, a, t) ==
    LET others == AccountId \ {a}
    IN  { [x \in D \cup (DOMAIN m \cap {a}) |-> IF x = a THEN m[a] ELSE f[x]]
          : D \in SUBSET others, f \in [others -> OtherProfiles(t)] }

\* what account a gets from each message it can send at block t on mapping
\* m: the value returned and, for start and claim, its profile afterwards
View(m, a, t) ==
    [start |-> [e \in Eras |-> MappingGet(start_result(m, a, e, t), a)],
     claim |-> {[res |-> r.res, profile |-> MappingGet(r.user, a)]
                : r \in claim_result(m, a, t)},
     get_remaining |-> get_remaining_result(m, a, t),
     get_remaining_for |-> get_remaining_for_result(m, a, t),
     get_profile |-> get_profile_result(m, a),
     get_account_profile |-> get_account_profile_result(m, a),
     get_badges |-> get_badges_result(m, a),
     get_badges_for |-> get_badges_for_result(m, a)]

\* C20: on two mappings that agree on the profile of account a, at the same
\* block, every message of a (start, claim and the queries about a) returns
\* the same and leaves a with the same profile, whatever the other accounts'
\* profiles are.
C20_Noninterference ==
    \A a \in AccountId :
        \A m2 \in Variants(user, a, block_number) :
            View(m2, a, block_number) = View(user, a, block_number)

\* a successful claim while the other account is waiting for its era to end
C20_Witness ==
    /\ last.op = "claim"
    /\ last.res = "Ok"
    /\ \E b \in DOMAIN user :
          /\ b # last.caller
          /\ ~Eligible(b)
    /\ Cardinality(Variants(user, last.caller, block_number)) > 1

====
